---------------------------- MODULE Spec2Model ----------------------------
(***************************************************************************)
(* Model of the skNoiseDeformer Maya plugin: the single-threaded deformer  *)
(* (skNoiseDeformer.cpp) and the multi-threaded deformer                   *)
(* (skNoiseDeformerMT.cpp, whose text is carried in src/README.md).        *)
(*                                                                         *)
(* Numbers.  The C++ floats are modelled in exact fixed point:             *)
(*   - envelope and weights are integers counting units of 1/Scale;        *)
(*   - coordinates (positions, offsets, matrix translations) are integers  *)
(*     counting units of 1/PosScale, PosScale = Scale*Scale, so that the   *)
(*     product env * weight is a coordinate without rounding;              *)
(*   - amplitudes, frequencies, lacunarity, persistence, noise values and  *)
(*     the linear part of a matrix are plain integers.                     *)
(* Floating-point rounding is therefore not part of the model.             *)
(***************************************************************************)
EXTENDS Integers, Sequences, FiniteSets, TLC

\* ------------------------------------------------------------------ bounds
MaxVerts == 2
MaxTasks == 3
MaxPartVerts == 100
MaxPartTasks == 16
MaxNodes == 2
MaxHostVerts == 2
MaxConstructions == 3

\* --------------------------------------------------------------- constants
\* const float EPSILON = 0.0000001, held as its reciprocal
EpsilonInv == 10000000

\* the largest int, INT_MAX
IntMax == 2147483647

Scale == 10^4
PosScale == Scale * Scale

\* variant of EpsilonGE: the test is on the magnitude of v
EpsilonGEAbs(v) == (IF v < 0 THEN 0 - v ELSE v) * (EpsilonInv \div Scale) <= 1

\* EPSILON >= v, for v in units of 1/Scale
EpsilonGE(v) == v * (EpsilonInv \div Scale) <= 1

\* -------------------------------------------------------------- MMatrix
Idx4 == 1..4

Identity == <<<<1,0,0,0>>, <<0,1,0,0>>, <<0,0,1,0>>, <<0,0,0,1>>>>

\* MMatrix::operator*
MatMul(a, b) ==
  [i \in Idx4 |-> [j \in Idx4 |->
      a[i][1]*b[1][j] + a[i][2]*b[2][j] + a[i][3]*b[3][j] + a[i][4]*b[4][j]]]

\* MPoint::operator*=(MMatrix): row vector times matrix
PointMul(p, m) ==
  [j \in Idx4 |-> p[1]*m[1][j] + p[2]*m[2][j] + p[3]*m[3][j] + p[4]*m[4][j]]

Skip(k) == [r \in 1..3 |-> IF r < k THEN r ELSE r + 1]

Det3(m, rows, cols) ==
    m[rows[1]][cols[1]] * (m[rows[2]][cols[2]]*m[rows[3]][cols[3]] - m[rows[2]][cols[3]]*m[rows[3]][cols[2]])
  - m[rows[1]][cols[2]] * (m[rows[2]][cols[1]]*m[rows[3]][cols[3]] - m[rows[2]][cols[3]]*m[rows[3]][cols[1]])
  + m[rows[1]][cols[3]] * (m[rows[2]][cols[1]]*m[rows[3]][cols[2]] - m[rows[2]][cols[2]]*m[rows[3]][cols[1]])

Sign(i, j) == IF (i + j) % 2 = 0 THEN 1 ELSE -1

Cofactor(m, i, j) == Sign(i, j) * Det3(m, Skip(i), Skip(j))

Det(m) == m[1][1]*Cofactor(m,1,1) + m[1][2]*Cofactor(m,1,2)
        + m[1][3]*Cofactor(m,1,3) + m[1][4]*Cofactor(m,1,4)

Adjugate(m) == [i \in Idx4 |-> [j \in Idx4 |-> Cofactor(m, j, i)]]

IsSingular(m) == Det(m) = 0

\* MMatrix::inverse() of an invertible matrix (the inputs have determinant 1 or -1)
InverseOf(m) ==
  LET adj == Adjugate(m)
      det == Det(m)
  IN [i \in Idx4 |-> [j \in Idx4 |-> adj[i][j] \div det]]

\* MMatrix::inverse() returns no status.  For a singular matrix the value it
\* returns is not defined by the code: any of these may come back.
InverseOutcomes(m) ==
  IF IsSingular(m) THEN {Identity, m} ELSE {InverseOf(m)}


\* ------------------------------------------------------- noise (libnoise)
\* A noise coordinate is the pair <<whole, frac>> standing for the real number
\* whole + frac/PosScale, 0 <= frac < PosScale: the offsets 123..890 added to
\* a coordinate keep it exact without leaving the integer range.
NoiseCoord(x) == <<x \div PosScale, x % PosScale>>

Shifted(c, k) == <<c[1] + k, c[2]>>

Scaled(c, f) == <<c[1] * f + ((c[2] * f) \div PosScale), (c[2] * f) % PosScale>>

Half(c) == IF 2 * c[2] >= PosScale THEN 1 ELSE 0

\* noise3 of libnoise/_simplex.c: a deterministic function of its three
\* coordinates with values in [-1, 1]
noise3(x, y, z) == ((x[1] + y[1] + z[1] + Half(x) + Half(y) + Half(z) + 1) % 3) - 1

RECURSIVE FbmSum(_, _, _, _, _, _, _, _, _)
FbmSum(x, y, z, i, octaves, persistence, lacunarity, freq, amp) ==
  IF i >= octaves THEN 0
  ELSE noise3(Scaled(x, freq), Scaled(y, freq), Scaled(z, freq)) * amp
       + FbmSum(x, y, z, i + 1, octaves, persistence, lacunarity,
                freq * lacunarity, amp * persistence)

\* fbm_noise3(x, y, z, octaves, persistence, lacunarity)
fbm_noise3(x, y, z, octaves, persistence, lacunarity) ==
  FbmSum(x, y, z, 0, octaves, persistence, lacunarity, 1, 1)

\* ------------------------------------------------ the displacement kernel
\* noiseInput[a] = freqs[a] * pos.a - offsets[a]
NoiseInput(pos, freqs, offsets) ==
  [a \in 1..3 |-> NoiseCoord(freqs[a] * pos[a] - offsets[a])]

\* variant of Displace: noiseInput is taken again from the position after
\* each axis has moved
DisplaceInPlace(pos, env, weight, prm) ==
  LET envTimesWeight == env * weight
      nx == NoiseInput(pos, prm.freqs, prm.offsets)
      px == <<pos[1] + prm.amps[1] * envTimesWeight
                         * fbm_noise3(nx[1], nx[2], nx[3],
                                      prm.octaves, prm.persistence, prm.lacunarity),
              pos[2], pos[3], pos[4]>>
      ny == NoiseInput(px, prm.freqs, prm.offsets)
      py == <<px[1],
              px[2] + prm.amps[2] * envTimesWeight
                        * fbm_noise3(Shifted(ny[1], 123), Shifted(ny[2], 456),
                                     Shifted(ny[3], 789),
                                     prm.octaves, prm.persistence, prm.lacunarity),
              px[3], px[4]>>
      nz == NoiseInput(py, prm.freqs, prm.offsets)
  IN <<py[1], py[2],
       py[3] + prm.amps[3] * envTimesWeight
                 * fbm_noise3(Shifted(nz[1], 234), Shifted(nz[2], 567),
                              Shifted(nz[3], 890),
                              prm.octaves, prm.persistence, prm.lacunarity),
       py[4]>>

\* pos.x += ..., pos.y += ..., pos.z += ...  with envTimesWeight = env * weight;
\* the three calls use the noiseInput computed before any axis moves
Displace(pos, env, weight, prm) ==
  LET nin == NoiseInput(pos, prm.freqs, prm.offsets)
      envTimesWeight == env * weight
      fx == fbm_noise3(nin[1], nin[2], nin[3],
                       prm.octaves, prm.persistence, prm.lacunarity)
      fy == fbm_noise3(Shifted(nin[1], 123), Shifted(nin[2], 456), Shifted(nin[3], 789),
                       prm.octaves, prm.persistence, prm.lacunarity)
      fz == fbm_noise3(Shifted(nin[1], 234), Shifted(nin[2], 567), Shifted(nin[3], 890),
                       prm.octaves, prm.persistence, prm.lacunarity)
  IN <<pos[1] + prm.amps[1] * fx * envTimesWeight,
       pos[2] + prm.amps[2] * fy * envTimesWeight,
       pos[3] + prm.amps[3] * fz * envTimesWeight,
       pos[4]>>

\* ----------------------------------------------------- the task partition
\* Each operator of the partition is preceded by the variants of it that the
\* properties at the end of the module are expected to tell apart from it.

\* variant of Width: the quotient rounded down
WidthFloor(start, end, numTasks) == (end - start + 1) \div numTasks

\* sharedData.width: static_cast<int>(std::ceil((end - start + 1.0) / numTasks))
Width(start, end, numTasks) == (end - start + 1 + numTasks - 1) \div numTasks

\* What line 464 stores in sharedData.width for the numTasks deform read.
\* numTasks = 0 divides by zero: the quotient is +inf (NaN for no points), and
\* the cast of it to int is undefined: builds give INT_MIN, INT_MAX or 0.
\* A negative numTasks gives ceil of a quotient that is negative or zero.
WidthOutcomes(start, end, numTasks) ==
  IF numTasks >= 1 THEN {Width(start, end, numTasks)}
  ELSE IF numTasks = 0
       THEN IF end - start + 1 > 0 THEN {0 - IntMax - 1, IntMax} ELSE {0 - IntMax - 1, 0}
       ELSE {0 - ((end - start + 1) \div (0 - numTasks))}

\* variant of ThreadStartId: every range but the first begins one index early
ThreadStartIdOverlap(sharedStart, id, sharedWidth) ==
  IF id = 0 THEN sharedStart ELSE sharedStart + id * sharedWidth - 1

\* threadStartId = sharedStart + id * sharedWidth
ThreadStartId(sharedStart, id, sharedWidth) == sharedStart + id * sharedWidth

\* variant of ThreadEndId: every range ends one index late
ThreadEndIdLong(threadStartId, sharedWidth) == threadStartId + sharedWidth + 1

\* threadEndId = threadStartId + sharedWidth
ThreadEndId(threadStartId, sharedWidth) == threadStartId + sharedWidth

\* variant of LoopCond: without the test against sharedEnd
LoopCondNoEnd(i, threadEndId, sharedEnd) == i < threadEndId

\* variant of LoopCond: the loop stops one index early
LoopCondShort(i, threadEndId, sharedEnd) == i < threadEndId - 1 /\ i <= sharedEnd

\* the loop test  i < threadEndId && i <= sharedEnd
LoopCond(i, threadEndId, sharedEnd) == i < threadEndId /\ i <= sharedEnd


\* ------------------------------------------------------------------ inputs
Pt(x, y, z) == <<x * PosScale, y * PosScale, z * PosScale, 1>>

Translate(x, y, z) ==
  <<<<1,0,0,0>>, <<0,1,0,0>>, <<0,0,1,0>>, <<x * PosScale, y * PosScale, z * PosScale, 1>>>>

SwapXY == <<<<0,1,0,0>>, <<1,0,0,0>>, <<0,0,1,0>>, <<0,0,0,1>>>>

\* a locator or mesh scaled to zero along x: not invertible
ZeroScaleX == <<<<0,0,0,0>>, <<0,1,0,0>>, <<0,0,1,0>>, <<0,0,0,1>>>>

\* envelope values -1, 0, 2e-4 and 1; weights -1, 0, 2e-4 and 1
EnvVals == {0 - Scale, 0, 2, Scale}
WeightVals == <<0 - Scale, 0, 2, Scale>>

\* The painted weight maps of n vertices: every vertex at the same weight, and
\* the weights taken in turn along the vertices, starting at each of them.
WeightMaps(n) ==
  { [i \in 0..(n-1) |-> WeightVals[r]] : r \in DOMAIN WeightVals }
  \cup { [i \in 0..(n-1) |-> WeightVals[((i + r) % Len(WeightVals)) + 1]]
          : r \in DOMAIN WeightVals }

\* the vertex positions of the two meshes
MeshA(i) == IF i % 2 = 0 THEN Pt(1,0,0) ELSE Pt(0,0,0)
MeshB(i) == IF i % 2 = 0 THEN Pt(0,1,0) ELSE Pt(1,0,2)

ParamsA == [amps |-> <<1,1,1>>, freqs |-> <<1,1,1>>, offsets |-> <<0,0,0>>,
            octaves |-> 1, lacunarity |-> 2, persistence |-> 1]
ParamsB == [amps |-> <<2,1,1>>, freqs |-> <<2,1,1>>, offsets |-> <<PosScale,0,0>>,
            octaves |-> 2, lacunarity |-> 2, persistence |-> 2]
\* an attribute block with the three amplitudes at zero
ParamsZeroAmp == [amps |-> <<0,0,0>>, freqs |-> <<1,1,1>>, offsets |-> <<0,0,0>>,
                  octaves |-> 1, lacunarity |-> 2, persistence |-> 1]

\* a mesh with its attribute block, its world matrix and the locator's
Scenes ==
  { [mesh |-> "A", params |-> ParamsA, localToWorld |-> Identity,         locator |-> Identity],
    [mesh |-> "B", params |-> ParamsB, localToWorld |-> Translate(1,0,0), locator |-> SwapXY],
    [mesh |-> "A", params |-> ParamsA, localToWorld |-> Identity,         locator |-> ZeroScaleX],
    [mesh |-> "B", params |-> ParamsB, localToWorld |-> ZeroScaleX,       locator |-> Translate(0,1,0)],
    [mesh |-> "B", params |-> ParamsZeroAmp, localToWorld |-> SwapXY,     locator |-> Translate(0,1,0)] }

MeshPoints(sc, n) == [i \in 0..(n-1) |-> IF sc.mesh = "A" THEN MeshA(i) ELSE MeshB(i)]

\* The deformer set may be all of the mesh (component indices 0..n-1) or leave
\* out vertex 0 (component indices 1..n).
Shifts(n) == IF n = 0 THEN {0} ELSE {0, 1}

\* the data handles deform asks the data block for, in order
STHandles == <<"envelope", "amp", "freq", "offset", "octaves", "lacunarity",
               "persistence", "locatorWorldSpace">>
MTHandles == <<"envelope", "numTasks", "amp", "freq", "offset", "octaves",
               "lacunarity", "persistence", "locatorWorldSpace">>

Range(f) == {f[i] : i \in DOMAIN f}

\* the attribute whose data handle the data block cannot supply, if any
Failing == {"none", "envelope", "numTasks", "octaves", "locatorWorldSpace"}

\* inverse holds what MMatrix::inverse() returns for the locator matrix and
\* for the local-to-world matrix of the scene (one function, so the same value
\* in both deformers).
Inputs ==
  UNION { { [n |-> n, pts |-> MeshPoints(sc, n), w |-> w, shift |-> sh, env |-> env,
             scene |-> sc, inverse |-> [locator |-> li, localToWorld |-> wi],
             failing |-> f]
            : w \in WeightMaps(n), sh \in Shifts(n), env \in EnvVals,
              f \in Failing,
              li \in InverseOutcomes(sc.locator),
              wi \in InverseOutcomes(sc.localToWorld) }
          : <<n, sc>> \in (0..MaxVerts) \X Scenes }

NoInput == [n |-> 0, pts |-> <<>>, w |-> <<>>, shift |-> 0, env |-> 0,
            scene |-> [mesh |-> "A", params |-> ParamsA, localToWorld |-> Identity,
                       locator |-> Identity],
            inverse |-> [locator |-> Identity, localToWorld |-> Identity],
            failing |-> "none"]

\* ------------------------------------------------------------------- state
VARIABLES
  pc,          \* where the evaluation of the two deformer nodes stands
  input,       \* what the host hands to deform: geometry, weights, attributes, matrices
  stGeom,      \* positions of the geometry deformed by SkNoiseDeformer
  stStatus,    \* MStatus returned by SkNoiseDeformer::deform
  stLocals,    \* its locals: the two precomputed matrices
  stIter,      \* position of geomIter in its loop
  stWritten,   \* elements it called setPosition on
  mtGeom,      \* positions of the geometry deformed by SkNoiseDeformerMT
  mtStatus,    \* MStatus returned by SkNoiseDeformerMT::deform
  mtLocals,    \* its locals: numTasks and the two precomputed matrices
  points,      \* MPointArray points
  weights,     \* MFloatArray weights
  sharedData,  \* SharedData sharedData
  threadData,  \* ThreadData *threadData (the array of createTasksAndExecute)
  task,        \* one record per created task: position in threadTask, loop index
  log,         \* every access of a task to an entry of points or weights
  committed,   \* elements written by setAllPositions
  part,        \* the index ranges of one partition, task after task
  pool         \* MThreadPool: the deformer nodes alive, the pool's reference count,
               \* the init() calls that succeeded and the release() calls made

vars == <<pc, input, stGeom, stStatus, stLocals, stIter, stWritten, mtGeom, mtStatus,
          mtLocals, points, weights, sharedData, threadData, task, log, committed,
          part, pool>>

stVars == <<stGeom, stStatus, stLocals, stIter, stWritten>>
mtVars == <<mtGeom, mtStatus, mtLocals, points, weights, sharedData, threadData,
            task, log, committed>>

NoMats == [toMat |-> Identity, fromMat |-> Identity]
NoShared == [start |-> 0, end |-> 0 - 1, width |-> 0, numTasks |-> 0, env |-> 0]
NoPart == [vertexCount |-> 0, taskCount |-> 0, id |-> 0, visits |-> <<>>, stray |-> {},
           owned |-> <<>>]

Init ==
  /\ pc = "idle"
  /\ input = NoInput
  /\ stGeom = <<>> /\ stStatus = "none" /\ stLocals = NoMats /\ stIter = 0
  /\ stWritten = {}
  /\ mtGeom = <<>> /\ mtStatus = "none"
  /\ mtLocals = [numTasks |-> 0, toMat |-> Identity, fromMat |-> Identity]
  /\ points = <<>> /\ weights = <<>>
  /\ sharedData = NoShared
  /\ threadData = <<>> /\ task = <<>> /\ log = {} /\ committed = {}
  /\ part = NoPart
  /\ pool = [nodes |-> 1, refs |-> 1, inits |-> 1, releases |-> 0]

\* deform is called with input in: the host hands the same input geometry,
\* weights, attribute values and matrices to the two deformer nodes, first
\* SkNoiseDeformer, then SkNoiseDeformerMT.
Deform(in) ==
  /\ pc = "idle"
  /\ pool.nodes >= 1
  /\ input' = in
  /\ stGeom' = in.pts
  /\ mtGeom' = in.pts
  /\ pc' = "st_deform"
  /\ stStatus' = "none" /\ stIter' = 0 /\ stWritten' = {}
  /\ mtStatus' = "none"
  /\ points' = <<>> /\ weights' = <<>> /\ sharedData' = NoShared
  /\ threadData' = <<>> /\ task' = <<>> /\ log' = {} /\ committed' = {}
  /\ UNCHANGED <<part, pool>>

\* an evaluation whose stack frames start out zeroed
Evaluate ==
  /\ pc = "idle"
  /\ \E in \in Inputs : Deform(in)
  /\ stLocals' = NoMats
  /\ mtLocals' = [numTasks |-> 0, toMat |-> Identity, fromMat |-> Identity]

\* The inputs of the evaluations that follow one another on the same nodes:
\* a mesh of up to MaxHostVerts vertices with invertible matrices, every data
\* handle available, vertex 0 at weight 1.
HostInputs ==
  { in \in Inputs : /\ in.n <= MaxHostVerts
                    /\ in.shift = 0
                    /\ in.failing = "none"
                    /\ in.env \in {0, Scale}
                    /\ in.n >= 1 => in.w[0] = Scale
                    /\ ~IsSingular(in.scene.localToWorld)
                    /\ ~IsSingular(in.scene.locator) }

\* an evaluation whose stack frames hold what the previous one left in them
Invoke ==
  /\ pc = "idle"
  /\ \E in \in HostInputs : Deform(in)
  /\ UNCHANGED <<stLocals, mtLocals>>

\* SkNoiseDeformerMT::SkNoiseDeformerMT: MThreadPool::init() adds a reference
\* to the pool when it succeeds; when it fails the constructor prints a
\* message and the node is created all the same.
Construct ==
  /\ pc = "idle"
  /\ pool.nodes < MaxNodes
  /\ pool.nodes + pool.releases < MaxConstructions
  /\ \E initOk \in BOOLEAN :
       pool' = [nodes |-> pool.nodes + 1,
                refs |-> IF initOk THEN pool.refs + 1 ELSE pool.refs,
                inits |-> IF initOk THEN pool.inits + 1 ELSE pool.inits,
                releases |-> pool.releases]
  /\ UNCHANGED <<pc, input, stVars, mtVars, part>>

\* SkNoiseDeformerMT::~SkNoiseDeformerMT: MThreadPool::release() drops a
\* reference; the pool is deleted when none is left.
Destruct ==
  /\ pc = "idle"
  /\ pool.nodes > 0
  /\ pool' = [nodes |-> pool.nodes - 1,
              refs |-> IF pool.refs > 0 THEN pool.refs - 1 ELSE 0,
              inits |-> pool.inits,
              releases |-> pool.releases + 1]
  /\ UNCHANGED <<pc, input, stVars, mtVars, part>>

\* the pool exists
PoolAvailable == pool.refs >= 1

\* localToLocatorSpaceMat = localToWorldMat * locatorWorldSpaceMat.inverse()
LocalToLocatorSpaceMat(localToWorldMat, locatorInverse) ==
  MatMul(localToWorldMat, locatorInverse)

\* variant of LocatorToLocalSpaceMat: the factors the other way round
LocatorToLocalSpaceMatSwapped(locatorWorldSpaceMat, localToWorldInverse) ==
  MatMul(localToWorldInverse, locatorWorldSpaceMat)

\* locatorToLocalSpaceMat = locatorWorldSpaceMat * localToWorldMat.inverse()
LocatorToLocalSpaceMat(locatorWorldSpaceMat, localToWorldInverse) ==
  MatMul(locatorWorldSpaceMat, localToWorldInverse)

\* the position of the first handle of hs that fails, 0 if none does
FailAt(hs) ==
  IF input.failing \in Range(hs)
  THEN CHOOSE i \in DOMAIN hs : hs[i] = input.failing
  ELSE 0

\* geomIter.index() of the e-th element, and weightValue(dataBlock, multiIndex, index)
ComponentIndex(e) == e + input.shift
WeightValue(index) ==
  IF index - input.shift \in 0..(input.n - 1) THEN input.w[index - input.shift] ELSE 0

\* ---------------------------------------------- SkNoiseDeformer::deform
\* lines 135-177: the data handles, the envelope test, the two matrices
ST_ReadAttributes ==
  /\ pc = "st_deform"
  /\ LET failAt == FailAt(STHandles)
     IN
       IF failAt = 1
       THEN /\ stStatus' = "kFailure" /\ pc' = "mt_deform"
            /\ UNCHANGED <<stLocals>>
       ELSE IF EpsilonGE(input.env)
       THEN /\ stStatus' = "kSuccess" /\ pc' = "mt_deform"
            /\ UNCHANGED <<stLocals>>
       ELSE IF failAt > 1
       THEN /\ stStatus' = "kFailure" /\ pc' = "mt_deform"
            /\ UNCHANGED <<stLocals>>
       ELSE /\ stLocals' = [toMat |-> LocalToLocatorSpaceMat(input.scene.localToWorld,
                                                              input.inverse.locator),
                             fromMat |-> LocatorToLocalSpaceMat(input.scene.locator,
                                                                input.inverse.localToWorld)]
            /\ pc' = "st_loop"
            /\ UNCHANGED stStatus
  /\ UNCHANGED <<input, stGeom, stIter, stWritten>>
  /\ UNCHANGED <<mtVars, part, pool>>

\* lines 184-213: one iteration of the geomIter loop
ST_Iterate ==
  /\ pc = "st_loop"
  /\ stIter < input.n
  /\ LET weight == WeightValue(ComponentIndex(stIter))
         pos0 == PointMul(stGeom[stIter], stLocals.toMat)
         pos1 == Displace(pos0, input.env, weight, input.scene.params)
         pos2 == PointMul(pos1, stLocals.fromMat)
     IN IF EpsilonGE(weight)
        THEN UNCHANGED <<stGeom, stWritten>>
        ELSE /\ stGeom' = [stGeom EXCEPT ![stIter] = pos2]
             /\ stWritten' = stWritten \cup {stIter}
  /\ stIter' = stIter + 1
  /\ UNCHANGED <<pc, input, stStatus, stLocals>>
  /\ UNCHANGED <<mtVars, part, pool>>

\* line 215: geomIter.isDone(), return stat
ST_Return ==
  /\ pc = "st_loop"
  /\ stIter >= input.n
  /\ stStatus' = "kSuccess"
  /\ stLocals' = NoMats
  /\ stIter' = 0
  /\ pc' = "mt_deform"
  /\ UNCHANGED <<input, stGeom, stWritten>>
  /\ UNCHANGED <<mtVars, part, pool>>


\* -------------------------------------------- SkNoiseDeformerMT::deform
\* What numTasksDataHandle.asInt() can return.  The attribute is created with
\* default 16 and setMin(1); the minimum limits what is typed into the
\* attribute, not what an incoming connection or a stored scene delivers, so
\* deform can read 0 or a negative value.
NumTasksValues == (0 - 1)..MaxTasks

\* lines 395-441: the data handles, the envelope test, numTasks, the two matrices
MT_ReadAttributes ==
  /\ pc = "mt_deform"
  /\ LET failAt == FailAt(MTHandles)
     IN
       IF failAt = 1
       THEN /\ mtStatus' = "kFailure" /\ pc' = "done"
            /\ UNCHANGED <<mtLocals>>
       ELSE IF EpsilonGE(input.env)
       THEN /\ mtStatus' = "kSuccess" /\ pc' = "done"
            /\ UNCHANGED <<mtLocals>>
       ELSE IF failAt > 1
       THEN /\ mtStatus' = "kFailure" /\ pc' = "done"
            /\ UNCHANGED <<mtLocals>>
       ELSE /\ \E nt \in NumTasksValues :
                 mtLocals' = [numTasks |-> nt,
                              toMat |-> LocalToLocatorSpaceMat(input.scene.localToWorld,
                                                              input.inverse.locator),
                              fromMat |-> LocatorToLocalSpaceMat(input.scene.locator,
                                                                input.inverse.localToWorld)]
            /\ pc' = "mt_points"
            /\ UNCHANGED mtStatus
  /\ UNCHANGED <<input, mtGeom, points, weights, sharedData, threadData, task, log,
                 committed>>
  /\ UNCHANGED <<stVars, part, pool>>

ArrayLength(arr) == Cardinality(DOMAIN arr)

\* MFloatArray::set(element, index).  An index past the end is either refused
\* (the returned status is dropped by the caller) or grows the array.
FloatArraySet(arr, element, index, grows) ==
  IF index \in DOMAIN arr THEN [arr EXCEPT ![index] = element]
  ELSE IF grows
       THEN [j \in 0..index |-> IF j \in DOMAIN arr THEN arr[j]
                                 ELSE IF j = index THEN element ELSE 0]
       ELSE arr

\* the loop of lines 451-455 from element e on
RECURSIVE StoreWeights(_, _, _)
StoreWeights(arr, e, grows) ==
  IF e >= input.n THEN arr
  ELSE StoreWeights(FloatArraySet(arr, WeightValue(ComponentIndex(e)),
                                  ComponentIndex(e), grows),
                    e + 1, grows)

\* lines 443-455: allPositions, MFloatArray weights(numPoints), the weight loop
MT_ReadPoints ==
  /\ pc = "mt_points"
  /\ points' = mtGeom
  /\ \E grows \in BOOLEAN :
       weights' = StoreWeights([j \in 0..(ArrayLength(mtGeom) - 1) |-> 0], 0, grows)
  /\ pc' = "mt_pack"
  /\ UNCHANGED <<input, mtGeom, mtStatus, mtLocals, sharedData, threadData, task, log,
                 committed>>
  /\ UNCHANGED <<stVars, part, pool>>

\* lines 457-473.  points, weights, amps, freqs, offsets and the two matrices
\* are held by address: a task reads them from points, weights, input and
\* mtLocals.
MT_PackSharedData ==
  /\ pc = "mt_pack"
  /\ \E width \in WidthOutcomes(0, ArrayLength(points) - 1, mtLocals.numTasks) :
       sharedData' = [start |-> 0,
                      end |-> ArrayLength(points) - 1,
                      numTasks |-> mtLocals.numTasks,
                      width |-> width,
                      env |-> input.env]
  /\ pc' = "mt_region"
  /\ UNCHANGED <<input, mtGeom, mtStatus, mtLocals, points, weights, threadData, task,
                 log, committed>>
  /\ UNCHANGED <<stVars, part, pool>>

\* Line 476 and lines 365-371: newParallelRegion calls createTasksAndExecute,
\* which allocates the ThreadData array.  deform calls it whether or not the
\* pool exists; without a pool the call either returns without having run
\* createTasksAndExecute or runs it all the same (it returns no status).
\* new ThreadData[numTasks] with a negative numTasks throws, and nothing
\* catches.
NewParallelRegion ==
  /\ pc = "mt_region"
  /\ \E runs \in (IF PoolAvailable THEN {TRUE} ELSE BOOLEAN) :
       IF ~runs
       THEN /\ pc' = "mt_commit"
            /\ UNCHANGED threadData
       ELSE IF sharedData.numTasks < 0
       THEN /\ pc' = "crashed"
            /\ UNCHANGED threadData
       ELSE /\ threadData' = [j \in 0..(sharedData.numTasks - 1) |->
                                [id |-> 0 - 1, shared |-> FALSE]]
            /\ pc' = "mt_create"
  /\ task' = <<>>
  /\ UNCHANGED <<input, mtGeom, mtStatus, mtLocals, points, weights, sharedData, log,
                 committed>>
  /\ UNCHANGED <<stVars, part, pool>>

\* the loop counter i of createTasksAndExecute
Created == ArrayLength(task)

\* lines 375-380: one iteration of the task creation loop
CreateTask ==
  /\ pc = "mt_create"
  /\ Created < sharedData.numTasks
  /\ threadData' = [threadData EXCEPT ![Created] = [id |-> Created, shared |-> TRUE]]
  /\ task' = [j \in 0..Created |->
                IF j < Created THEN task[j]
                ELSE [data |-> Created, pc |-> "created", i |-> 0, iters |-> 0]]
  /\ UNCHANGED <<pc, input, mtGeom, mtStatus, mtLocals, points, weights, sharedData,
                 log, committed>>
  /\ UNCHANGED <<stVars, part, pool>>

\* line 383: executeAndJoin starts the tasks of the region
ExecuteAndJoin ==
  /\ pc = "mt_create"
  /\ Created >= sharedData.numTasks
  /\ task' = [j \in DOMAIN task |-> [task[j] EXCEPT !.pc = "ready"]]
  /\ pc' = "mt_exec"
  /\ UNCHANGED <<input, mtGeom, mtStatus, mtLocals, points, weights, sharedData,
                 threadData, log, committed>>
  /\ UNCHANGED <<stVars, part, pool>>

\* ------------------------------------------------------------ threadTask
\* lines 310-331: the locals of task k
TaskId(k) == threadData[task[k].data].id
TaskStart(k) == ThreadStartId(sharedData.start, TaskId(k), sharedData.width)
TaskEnd(k) == ThreadEndId(TaskStart(k), sharedData.width)
\* the loop index: threadStartId on entry, then the stored i
TaskIndex(k) == IF task[k].pc = "ready" THEN TaskStart(k) ELSE task[k].i
\* the loop test at index i
TaskLoops(k, i) == LoopCond(i, TaskEnd(k), sharedData.end)

PointAt(i) == IF i \in DOMAIN points THEN points[i] ELSE Pt(0,0,0)
WeightAt(i) == IF i \in DOMAIN weights THEN weights[i] ELSE 0
PointsWith(i, p) == IF i \in DOMAIN points THEN [points EXCEPT ![i] = p] ELSE points

Access(k, buf, i, op, line) ==
  [task |-> k, buf |-> buf, index |-> i, op |-> op, line |-> line]

\* lines 338-342: the loop test holds; *pos *= *sharedLocalToLocatorSpaceMat
ThreadToNoise(k) ==
  /\ pc = "mt_exec"
  /\ task[k].pc \in {"ready", "loop"}
  /\ TaskLoops(k, TaskIndex(k))
  /\ LET i == TaskIndex(k)
     IN /\ points' = PointsWith(i, PointMul(PointAt(i), mtLocals.toMat))
        /\ log' = log \cup {Access(k, "points", i, "r", 342), Access(k, "points", i, "w", 342)}
        /\ task' = [task EXCEPT ![k].pc = "toNoise", ![k].i = i]
  /\ UNCHANGED <<pc, input, mtGeom, mtStatus, mtLocals, weights, sharedData, threadData,
                 committed>>
  /\ UNCHANGED <<stVars, part, pool>>

\* lines 345-353: noiseInput, envTimesWeight, the three displacements
ThreadDisplace(k) ==
  /\ pc = "mt_exec"
  /\ task[k].pc = "toNoise"
  /\ LET i == task[k].i
     IN /\ points' = PointsWith(i, Displace(PointAt(i), sharedData.env, WeightAt(i),
                                            input.scene.params))
        /\ log' = log \cup {Access(k, "points", i, "r", 345), Access(k, "weights", i, "r", 348),
                            Access(k, "points", i, "w", 351)}
  /\ task' = [task EXCEPT ![k].pc = "displaced"]
  /\ UNCHANGED <<pc, input, mtGeom, mtStatus, mtLocals, weights, sharedData, threadData,
                 committed>>
  /\ UNCHANGED <<stVars, part, pool>>

\* line 356, ++i and the loop test of line 338, with the return of line 359
\* when it fails: *pos *= *sharedLocatorToLocalSpaceMat
ThreadFromNoise(k) ==
  /\ pc = "mt_exec"
  /\ task[k].pc = "displaced"
  /\ LET i == task[k].i
     IN /\ points' = PointsWith(i, PointMul(PointAt(i), mtLocals.fromMat))
        /\ log' = log \cup {Access(k, "points", i, "r", 356), Access(k, "points", i, "w", 356)}
        /\ task' = [task EXCEPT ![k].pc = IF TaskLoops(k, i + 1) THEN "loop" ELSE "done",
                                ![k].i = i + 1,
                                ![k].iters = task[k].iters + 1]
  /\ UNCHANGED <<pc, input, mtGeom, mtStatus, mtLocals, weights, sharedData, threadData,
                 committed>>
  /\ UNCHANGED <<stVars, part, pool>>

\* lines 310-338 and 359: the loop test fails on entry (an empty range); return
ThreadReturn(k) ==
  /\ pc = "mt_exec"
  /\ task[k].pc = "ready"
  /\ ~TaskLoops(k, TaskIndex(k))
  /\ task' = [task EXCEPT ![k].pc = "done", ![k].i = TaskIndex(k)]
  /\ UNCHANGED <<pc, input, mtGeom, mtStatus, mtLocals, points, weights, sharedData,
                 threadData, log, committed>>
  /\ UNCHANGED <<stVars, part, pool>>

\* variant of AllTasksJoined: executeAndJoin returns once one task has finished
AnyTaskJoined == \E k \in DOMAIN task : task[k].pc = "done"

\* variant of AllTasksJoined: the join waits for one completion more than
\* there are tasks
JoinCountsOneMore ==
  Cardinality({k \in DOMAIN task : task[k].pc = "done"}) > sharedData.numTasks

\* executeAndJoin returns when the tasks of the region have finished
AllTasksJoined == \A k \in DOMAIN task : task[k].pc = "done"

\* lines 383-386: executeAndJoin returns; delete [] threadData
Join ==
  /\ pc = "mt_exec"
  /\ AllTasksJoined
  /\ threadData' = <<>>
  /\ pc' = "mt_commit"
  /\ UNCHANGED <<input, mtGeom, mtStatus, mtLocals, points, weights, sharedData, task,
                 log, committed>>
  /\ UNCHANGED <<stVars, part, pool>>

\* lines 479-481: geomIter.setAllPositions(points); return stat
SetAllPositions ==
  /\ pc = "mt_commit"
  /\ mtGeom' = points
  /\ committed' = DOMAIN points
  /\ mtStatus' = "kSuccess"
  /\ pc' = "done"
  /\ UNCHANGED <<input, mtLocals, points, weights, sharedData, threadData, task, log>>
  /\ UNCHANGED <<stVars, part, pool>>

\* the host is done with this evaluation: both nodes' outputs are dropped
Finish ==
  /\ pc = "done"
  /\ pc' = "idle"
  /\ input' = NoInput
  /\ stGeom' = <<>> /\ stStatus' = "none" /\ stWritten' = {}
  /\ mtGeom' = <<>> /\ mtStatus' = "none"
  /\ mtLocals' = [numTasks |-> 0, toMat |-> Identity, fromMat |-> Identity]
  /\ points' = <<>> /\ weights' = <<>> /\ sharedData' = NoShared
  /\ task' = <<>> /\ log' = {} /\ committed' = {}
  /\ UNCHANGED <<stLocals, stIter, threadData, part, pool>>

\* the same, between evaluations that follow one another on the same nodes:
\* the memory of deform's frame stays as deform left it
Return ==
  /\ pc = "done"
  /\ pc' = "idle"
  /\ input' = NoInput
  /\ stGeom' = <<>> /\ stStatus' = "none" /\ stWritten' = {}
  /\ mtGeom' = <<>> /\ mtStatus' = "none"
  /\ points' = <<>> /\ weights' = <<>> /\ sharedData' = NoShared
  /\ task' = <<>> /\ log' = {} /\ committed' = {}
  /\ UNCHANGED <<stLocals, stIter, mtLocals, threadData, part, pool>>

ThreadStep ==
  \E k \in DOMAIN task :
     \/ ThreadToNoise(k)
     \/ ThreadDisplace(k)
     \/ ThreadFromNoise(k)
     \/ ThreadReturn(k)

Next ==
  \/ Evaluate
  \/ ST_ReadAttributes
  \/ ST_Iterate
  \/ ST_Return
  \/ MT_ReadAttributes
  \/ MT_ReadPoints
  \/ MT_PackSharedData
  \/ NewParallelRegion
  \/ CreateTask
  \/ ExecuteAndJoin
  \/ ThreadStep
  \/ Join
  \/ SetAllPositions
  \/ Finish

Spec == Init /\ [][Next]_vars

\* A step of a deform that has been called: deform and createTasksAndExecute
\* are sequential code, and the pool runs every task it was given.
Progress ==
  \/ ST_ReadAttributes
  \/ ST_Iterate
  \/ ST_Return
  \/ MT_ReadAttributes
  \/ MT_ReadPoints
  \/ MT_PackSharedData
  \/ NewParallelRegion
  \/ CreateTask
  \/ ExecuteAndJoin
  \/ ThreadStep
  \/ Join
  \/ SetAllPositions


\* evaluations that follow one another on the nodes there are
NextSeq ==
  \/ Invoke
  \/ ST_ReadAttributes
  \/ ST_Iterate
  \/ ST_Return
  \/ MT_ReadAttributes
  \/ MT_ReadPoints
  \/ MT_PackSharedData
  \/ NewParallelRegion
  \/ CreateTask
  \/ ExecuteAndJoin
  \/ ThreadStep
  \/ Join
  \/ SetAllPositions
  \/ Return

SpecSeq == Init /\ [][NextSeq]_vars

FairSeq == SpecSeq /\ WF_vars(Progress)

\* the life of the nodes: constructions, evaluations one after the other,
\* destructions
NextHost ==
  \/ Construct
  \/ Destruct
  \/ NextSeq

SpecHost == Init /\ [][NextHost]_vars

\* ------------------------------------- the partition as a pure function
\* the indices the loop of threadTask runs over, from i on (line 338)
RECURSIVE LoopIndices(_, _, _)
LoopIndices(i, threadEndId, sharedEnd) ==
  IF LoopCond(i, threadEndId, sharedEnd)
  THEN {i} \cup LoopIndices(i + 1, threadEndId, sharedEnd)
  ELSE {}

\* the indices task id works on, for the SharedData deform packs (lines 459-464)
\* for numPoints points and numTasks tasks
TaskIndices(numPoints, numTasks, id) ==
  LET start == 0
      end == numPoints - 1
      width == Width(start, end, numTasks)
      threadStartId == ThreadStartId(start, id, width)
  IN LoopIndices(threadStartId, ThreadEndId(threadStartId, width), end)

PartBegin ==
  /\ part.taskCount = 0
  /\ \E n \in 0..MaxPartVerts, t \in 1..MaxPartTasks :
       part' = [vertexCount |-> n, taskCount |-> t, id |-> 0,
                visits |-> [i \in 0..(n-1) |-> 0], stray |-> {},
                owned |-> <<>>]
  /\ UNCHANGED <<pc, input, stVars, mtVars, pool>>

\* task part.id runs its loop; owned[k] is the number of indices task k worked on
PartTask ==
  /\ part.taskCount > 0
  /\ part.id < part.taskCount
  /\ LET idx == TaskIndices(part.vertexCount, part.taskCount, part.id)
     IN part' = [part EXCEPT
                   !.visits = [i \in DOMAIN part.visits |->
                                 IF i \in idx THEN part.visits[i] + 1 ELSE part.visits[i]],
                   !.stray = part.stray \cup (idx \ DOMAIN part.visits),
                   !.owned = [k \in 0..part.id |->
                                IF k = part.id THEN Cardinality(idx) ELSE part.owned[k]],
                   !.id = part.id + 1]
  /\ UNCHANGED <<pc, input, stVars, mtVars, pool>>

PartEnd ==
  /\ part.taskCount > 0
  /\ part.id >= part.taskCount
  /\ part' = NoPart
  /\ UNCHANGED <<pc, input, stVars, mtVars, pool>>

NextPart == PartBegin \/ PartTask \/ PartEnd

SpecPart == Init /\ [][NextPart]_vars


\* ================================================================= claims
CeilDiv(a, b) == (a + b - 1) \div b

\* envelope * weight < EPSILON, the product counted in units of 1/PosScale
ProductBelowEpsilon(env, weight) == env * weight < PosScale \div EpsilonInv

VertexIds == 0..(input.n - 1)

\* the evaluation is of a whole mesh with invertible matrices
Regular ==
  /\ input.shift = 0
  /\ ~IsSingular(input.scene.localToWorld)
  /\ ~IsSingular(input.scene.locator)

\* SkNoiseDeformerMT::deform got as far as packing SharedData
Dispatched == sharedData.numTasks >= 1

\* the kernel of threadTask on one point with one weight
Kernel(p, w) ==
  PointMul(Displace(PointMul(p, mtLocals.toMat), input.env, w, input.scene.params),
           mtLocals.fromMat)

\* C1: once tasks 0..id-1 of a partition of vertexCount indices into taskCount
\* ranges of width ceil(vertexCount/taskCount) have run, exactly the indices
\* below id*width have been processed, each once, and no index outside
\* [0, vertexCount-1] has been; after the last task every index has been
\* processed exactly once.
C1_PartitionCoversOnce ==
  part.taskCount > 0 =>
    LET width == CeilDiv(part.vertexCount, part.taskCount)
    IN /\ part.stray = {}
       /\ \A i \in DOMAIN part.visits :
            part.visits[i] = (IF i < part.id * width THEN 1 ELSE 0)
       /\ part.id = part.taskCount =>
            /\ DOMAIN part.visits = 0..(part.vertexCount - 1)
            /\ \A i \in DOMAIN part.visits : part.visits[i] = 1

C1_Witness ==
  /\ part.vertexCount = 100
  /\ part.taskCount = 16
  /\ part.id = 16
  /\ \A i \in 0..99 : part.visits[i] = 1

\* the buffer one task working through indices 0..vertexCount-1 produces
C2_OneTaskBuffer == [i \in VertexIds |-> Kernel(input.pts[i], weights[i])]

\* C2: whatever the task count, the buffer the multi-threaded deform commits
\* is the buffer one task working through indices 0..vertexCount-1 produces.
C2_TaskCountInvariance ==
  (pc = "done" /\ mtStatus = "kSuccess" /\ Dispatched) => mtGeom = C2_OneTaskBuffer

C2_Witness ==
  /\ pc = "done"
  /\ mtStatus = "kSuccess"
  /\ sharedData.numTasks = 3
  /\ input.n = 2
  /\ mtGeom[0] # input.pts[0]
  /\ mtGeom[1] # input.pts[1]

\* the buffer after the tasks have run one after the other in id order
RECURSIVE C3_KernelOver(_, _)
C3_KernelOver(buf, idx) ==
  IF idx = {} THEN buf
  ELSE LET i == CHOOSE j \in idx : \A l \in idx : j <= l
       IN C3_KernelOver(IF i \in DOMAIN buf
                        THEN [buf EXCEPT ![i] = Kernel(buf[i], weights[i])]
                        ELSE buf,
                        idx \ {i})

RECURSIVE C3_TasksInOrder(_, _)
C3_TasksInOrder(buf, id) ==
  IF id >= sharedData.numTasks THEN buf
  ELSE C3_TasksInOrder(C3_KernelOver(buf, TaskIndices(input.n, sharedData.numTasks, id)),
                       id + 1)

\* C3: no two tasks touch the same entry of points unless both only read it,
\* and when the tasks have joined, whatever the order their steps were taken
\* in, points is the buffer the tasks produce when run one after the other.
C3_ScheduleIndependence ==
  /\ \A a \in log : \A b \in log :
       (a.buf = "points" /\ b.buf = "points" /\ a.index = b.index /\ a.task # b.task)
         => (a.op = "r" /\ b.op = "r")
  /\ pc = "mt_commit" => points = C3_TasksInOrder(input.pts, 0)

C3_Witness ==
  /\ pc = "mt_exec"
  /\ \E k \in DOMAIN task : \E j \in DOMAIN task :
       /\ task[k].pc = "displaced"
       /\ task[j].pc = "toNoise"
       /\ task[j].i < task[k].i

\* the range of task k: [k*width, min((k+1)*width - 1, vertexCount - 1)]
C4_OwnRange(k) ==
  LET width == CeilDiv(input.n, sharedData.numTasks)
  IN {i \in VertexIds : k * width <= i /\ i <= (k + 1) * width - 1}

C4_AccessesInRange ==
  \A a \in log : /\ a.index \in C4_OwnRange(a.task)
                 /\ a.buf = "weights" => a.op = "r"

C4_SharedReadOnly ==
  pc = "mt_exec" =>
    /\ weights' = weights
    /\ input' = input
    /\ mtLocals' = mtLocals
    /\ sharedData' = sharedData

\* C4: every access of task k is to an index of its own range
\* [k*width, min((k+1)*width - 1, vertexCount - 1)], so within
\* [0, vertexCount-1]; a task only reads weights; and no step taken while the
\* tasks run changes the weight buffer, the attribute values, the two
\* matrices or SharedData.
C4_OwnRangeOnly == [](C4_AccessesInRange) /\ [][C4_SharedReadOnly]_vars

C4_Witness ==
  /\ pc = "mt_exec"
  /\ sharedData.numTasks = 2
  /\ Access(1, "points", 1, "w", 356) \in log
  /\ Access(0, "weights", 0, "r", 348) \in log

\* C5, as the specification states it: after both deformers have run, every vertex whose
\* envelope * weight is below 1e-7 is where it was, in both geometries.
C5_BelowEpsilonUnchanged ==
  (pc = "done" /\ Regular) =>
    \A i \in VertexIds :
      ProductBelowEpsilon(input.env, input.w[i]) =>
        /\ stGeom[i] = input.pts[i]
        /\ mtGeom[i] = input.pts[i]

\* C6, as the specification states it: with numTasks = 1 the two deformers commit the same
\* positions.
C6_SingleThreadedIsOneTask ==
  (pc = "done" /\ Regular /\ mtLocals.numTasks = 1
     /\ stStatus = "kSuccess" /\ mtStatus = "kSuccess")
    => stGeom = mtGeom

\* C7, as the specification states it: when one of the two matrices is singular and deform gets
\* to inverting them, both deformers report failure and move no vertex.
C7_SingularReportsFailure ==
  (/\ pc = "done"
   /\ IsSingular(input.scene.localToWorld) \/ IsSingular(input.scene.locator)
   /\ input.failing = "none"
   /\ ~EpsilonGE(input.env))
    => /\ stStatus = "kFailure" /\ mtStatus = "kFailure"
       /\ stGeom = input.pts /\ mtGeom = input.pts

\* C8, as the specification states it: a deform that returned failure has
\* written no position; a
\* multi-threaded deform that returned success after the dispatch has had
\* every vertex worked through lines 342-356 by exactly one task and has
\* committed all of them; a single-threaded deform that returned success
\* after its loop has set every vertex whose weight is above EPSILON.
C8_NoPartialSuccess ==
  /\ stStatus = "kFailure" => (stGeom = input.pts /\ stWritten = {})
  /\ mtStatus = "kFailure" => (mtGeom = input.pts /\ committed = {} /\ log = {})
  /\ (mtStatus = "kSuccess" /\ ~EpsilonGE(input.env)) =>
       /\ committed = VertexIds
       /\ mtGeom = points
       /\ \A i \in VertexIds :
            Cardinality({k \in DOMAIN task :
                           Access(k, "points", i, "w", 356) \in log}) = 1
  /\ (stStatus = "kSuccess" /\ ~EpsilonGE(input.env)) =>
       stWritten = {i \in VertexIds : ~EpsilonGE(input.w[i])}

\* C9: a task whose first index k*width is past vertexCount-1 runs no
\* iteration and touches no entry, and a dispatch with more tasks than
\* vertices ends with every task finished and deform returning success.
C9_EmptyRangesAreNoOps ==
  /\ \A k \in DOMAIN task :
       k * CeilDiv(input.n, sharedData.numTasks) > input.n - 1 =>
         /\ task[k].iters = 0
         /\ \A a \in log : a.task # k
         /\ task[k].pc \in {"created", "ready", "done"}
  /\ (pc = "done" /\ Dispatched /\ sharedData.numTasks > input.n) =>
       /\ mtStatus = "kSuccess"
       /\ DOMAIN task = 0..(sharedData.numTasks - 1)
       /\ \A k \in DOMAIN task : task[k].pc = "done"

C9_Witness ==
  /\ pc = "done"
  /\ mtStatus = "kSuccess"
  /\ input.n = 1
  /\ sharedData.numTasks = 3
  /\ task[0].pc = "done" /\ task[0].iters = 1
  /\ \A k \in 1..2 : task[k].pc = "done" /\ task[k].iters = 0

\* C10: a step that commits positions to the geometry is taken only when all
\* numTasks tasks have been created and every one of them has finished.
C10_CommitAfterJoin ==
  [][(committed' # committed /\ committed' # {}) =>
       /\ ArrayLength(task) = sharedData.numTasks
       /\ \A k \in DOMAIN task : task[k].pc = "done"]_vars

C10_Witness ==
  /\ pc = "done"
  /\ committed = {0, 1}
  /\ sharedData.numTasks = 2
  /\ task[0].iters = 1 /\ task[1].iters = 1

\* deform has packed SharedData and not yet returned
Packed == pc \in {"mt_region", "mt_create", "mt_exec", "mt_commit", "crashed"}

\* C11, as the specification states it: the task count the partition is
\* computed with is at least 1 whatever deform read, the width is a
\* non-negative integer, at least one task runs in the region, and deform
\* does not crash.
C11_TaskCountClamped ==
  /\ Packed => (sharedData.numTasks >= 1 /\ sharedData.width >= 0)
  /\ pc = "mt_exec" => ArrayLength(task) >= 1
  /\ pc # "crashed"

\* C12, as the specification states it: when the pool is unavailable a
\* deform that gets to the dispatch creates no task in the pool and still
\* returns with every vertex put through the kernel.
C12_DegradesToSingleThreaded ==
  (/\ pc = "done"
   /\ ~PoolAvailable
   /\ mtStatus = "kSuccess"
   /\ ~EpsilonGE(input.env)
   /\ mtLocals.numTasks >= 1)
    => /\ task = <<>>
       /\ \A i \in VertexIds : mtGeom[i] = Kernel(input.pts[i], input.w[i])

\* C13, as the specification states it: once the weights are stored, the
\* weight buffer is as long as the point buffer, the weight at each position
\* is the weight of the vertex at that position of points, and every index
\* written was within the buffer.
C13_WeightsMatchPoints ==
  pc \in {"mt_pack", "mt_region", "mt_create", "mt_exec", "mt_commit"} =>
    /\ ArrayLength(weights) = ArrayLength(points)
    /\ \A i \in DOMAIN points : i \in DOMAIN weights /\ weights[i] = input.w[i]
    /\ \A e \in VertexIds : ComponentIndex(e) \in 0..(ArrayLength(points) - 1)

\* the value of fbm at three coordinates
C14_Fbm(prm, x, y, z) ==
  fbm_noise3(x, y, z, prm.octaves, prm.persistence, prm.lacunarity)

\* the position the specification's kernel gives for point p: into noise
\* space, the three noise coordinates, the three displacements from those
\* coordinates, back out of noise space
C14_Out(p, toNoiseSpace, fromNoiseSpace, prm, env, weight) ==
  LET q == PointMul(p, toNoiseSpace)
      nx == NoiseCoord(prm.freqs[1] * q[1] - prm.offsets[1])
      ny == NoiseCoord(prm.freqs[2] * q[2] - prm.offsets[2])
      nz == NoiseCoord(prm.freqs[3] * q[3] - prm.offsets[3])
      dx == prm.amps[1] * C14_Fbm(prm, nx, ny, nz) * env * weight
      dy == prm.amps[2] * C14_Fbm(prm, Shifted(nx, 123), Shifted(ny, 456), Shifted(nz, 789))
              * env * weight
      dz == prm.amps[3] * C14_Fbm(prm, Shifted(nx, 234), Shifted(ny, 567), Shifted(nz, 890))
              * env * weight
  IN PointMul(<<q[1] + dx, q[2] + dy, q[3] + dz, q[4]>>, fromNoiseSpace)

C14_ToNoiseSpace == MatMul(input.scene.localToWorld, input.inverse.locator)
C14_FromNoiseSpace == MatMul(input.scene.locator, input.inverse.localToWorld)

\* identity frames, unit envelope, amplitude and frequency, zero offset,
\* vertex 0 at (1,0,0) with unit weight
C14_Example ==
  /\ input.n >= 1
  /\ input.shift = 0
  /\ input.pts[0] = Pt(1, 0, 0)
  /\ input.w[0] = Scale
  /\ input.env = Scale
  /\ input.scene.localToWorld = Identity
  /\ input.scene.locator = Identity
  /\ input.scene.params = ParamsA

\* (1 + fbm(1,0,0), fbm(124,456,789), fbm(235,567,890))
C14_ExampleOut ==
  <<PosScale + C14_Fbm(ParamsA, <<1, 0>>, <<0, 0>>, <<0, 0>>) * PosScale,
    C14_Fbm(ParamsA, <<124, 0>>, <<456, 0>>, <<789, 0>>) * PosScale,
    C14_Fbm(ParamsA, <<235, 0>>, <<567, 0>>, <<890, 0>>) * PosScale,
    1>>

\* C14: every vertex a deformer has processed is where the specification's
\* kernel puts it (all three fbm calls on the noise coordinates of the
\* undisplaced point), in the single-threaded deformer for the vertices it
\* set and in the multi-threaded one for every vertex, with the weight the
\* kernel was handed; and the example vertex (1,0,0) ends at
\* (1 + fbm(1,0,0), fbm(124,456,789), fbm(235,567,890)) in both.
C14_KernelFormula ==
  /\ pc \in {"st_loop", "mt_deform"} =>
     \A i \in stWritten :
       stGeom[i] = C14_Out(input.pts[i], C14_ToNoiseSpace, C14_FromNoiseSpace,
                           input.scene.params, input.env,
                           WeightValue(ComponentIndex(i)))
  /\ (pc = "done" /\ mtStatus = "kSuccess" /\ Dispatched) =>
       /\ \A i \in VertexIds :
            mtGeom[i] = C14_Out(input.pts[i], C14_ToNoiseSpace, C14_FromNoiseSpace,
                                input.scene.params, input.env, WeightAt(i))
       /\ C14_Example => (mtGeom[0] = C14_ExampleOut /\ stGeom[0] = C14_ExampleOut)

C14_Witness ==
  /\ pc = "done"
  /\ mtStatus = "kSuccess"
  /\ Dispatched
  /\ C14_Example
  /\ 0 \in stWritten
  /\ mtGeom[0] = <<2 * PosScale, PosScale, 0, 1>>
  /\ stGeom[0] = <<2 * PosScale, PosScale, 0, 1>>

\* C15: with at least one task, no worker runs more than width iterations,
\* and under fair scheduling a called deform returns: the single-threaded
\* deform gets to its return, the multi-threaded deform gets from its entry
\* to the dispatch or to its return, and from the dispatch through the join
\* to its return.
C15_DeformCompletes ==
  /\ [](sharedData.numTasks >= 1 =>
          \A k \in DOMAIN task : task[k].iters <= sharedData.width)
  /\ (pc = "st_deform") ~> (pc = "mt_deform")
  /\ (pc = "mt_deform") ~> (pc \in {"mt_points", "done"})
  /\ (pc = "mt_points" /\ mtLocals.numTasks >= 1) ~> (pc = "mt_commit")
  /\ (pc = "mt_commit") ~> (pc = "done")

C15_Witness ==
  /\ pc = "done"
  /\ mtStatus = "kSuccess"
  /\ input.n = 2
  /\ sharedData.numTasks = 2
  /\ sharedData.width = 1
  /\ \A k \in 0..1 : task[k].pc = "done" /\ task[k].iters = 1

\* C16, as the specification states it: whenever a deform is at or past its
\* call of newParallelRegion and the region has not been joined, the pool has
\* been initialised and not released.
C16_PoolLiveInRegion ==
  pc \in {"mt_region", "mt_create", "mt_exec"} => PoolAvailable

\* what the single-threaded kernel makes of this invocation's input
C17_ExpectedST ==
  [i \in VertexIds |->
     IF EpsilonGE(input.w[i]) THEN input.pts[i]
     ELSE C14_Out(input.pts[i], C14_ToNoiseSpace, C14_FromNoiseSpace,
                  input.scene.params, input.env, input.w[i])]

\* what the multi-threaded kernel makes of this invocation's input
C17_ExpectedMT ==
  [i \in VertexIds |->
     C14_Out(input.pts[i], C14_ToNoiseSpace, C14_FromNoiseSpace,
             input.scene.params, input.env, input.w[i])]

\* this invocation gets to the dispatch with at least one task
C17_RegionRan ==
  /\ ~EpsilonGE(input.env)
  /\ mtLocals.numTasks >= 1

C18_Width == CeilDiv(part.vertexCount, part.taskCount)

\* C18, as the specification states it: every task that has run and is not
\* the last one has worked on exactly ceil(vertexCount/taskCount) indices.
C18_AllButLastFull ==
  (part.taskCount >= 1 /\ part.vertexCount >= 1) =>
    \A k \in DOMAIN part.owned :
      k # part.taskCount - 1 => part.owned[k] = C18_Width

\* C18: a task whose range ends within the buffer ((k+1)*width <=
\* vertexCount) works on exactly width = ceil(vertexCount/taskCount) indices;
\* the task whose range the buffer end cuts works on the vertexCount - k*width
\* that are left, fewer than width; every task after it works on none.  The
\* cut or empty ranges need not be the last task's alone.
C18_RangeWidths ==
  (part.taskCount >= 1 /\ part.vertexCount >= 1) =>
    \A k \in DOMAIN part.owned :
      part.owned[k] =
        (IF (k + 1) * C18_Width <= part.vertexCount THEN C18_Width
         ELSE IF k * C18_Width < part.vertexCount
              THEN part.vertexCount - k * C18_Width
              ELSE 0)

C18_Witness ==
  /\ part.vertexCount = 5
  /\ part.taskCount = 4
  /\ part.id = 4
  /\ part.owned = (0 :> 2 @@ 1 :> 2 @@ 2 :> 1 @@ 3 :> 0)

\* the two matrices the specification gives for the scene of the evaluation
C19_ToNoiseSpace ==
  MatMul(input.scene.localToWorld, InverseOf(input.scene.locator))
C19_FromNoiseSpace ==
  MatMul(input.scene.locator, InverseOf(input.scene.localToWorld))

C19_Invertible ==
  ~IsSingular(input.scene.localToWorld) /\ ~IsSingular(input.scene.locator)

\* the kernel moves nothing at the point q of noise space with this weight
C19_ZeroDisplacement(q, weight) ==
  Displace(q, input.env, weight, input.scene.params) = q

\* a task has written vertex i back to local space
C19_Processed(i) ==
  \E k \in DOMAIN task : Access(k, "points", i, "w", 356) \in log

\* C19: with an invertible local-to-world matrix and an invertible locator
\* matrix, the matrices both deformers have when they come to the vertices are
\* localToWorld * inverse(locator) and locator * inverse(localToWorld), whose
\* product is the identity, and a vertex
\* that the kernel has processed with a displacement of zero on the three axes
\* is written back at exactly its input position.
C19_MutuallyInverse ==
  /\ (pc = "st_loop" /\ stIter = 0 /\ C19_Invertible) =>
       LET toNoiseSpace == C19_ToNoiseSpace
           fromNoiseSpace == C19_FromNoiseSpace
       IN /\ stLocals.toMat = toNoiseSpace
          /\ stLocals.fromMat = fromNoiseSpace
          /\ MatMul(toNoiseSpace, fromNoiseSpace) = Identity
  /\ (pc = "mt_points" /\ C19_Invertible) =>
       LET toNoiseSpace == C19_ToNoiseSpace
           fromNoiseSpace == C19_FromNoiseSpace
       IN /\ mtLocals.toMat = toNoiseSpace
          /\ mtLocals.fromMat = fromNoiseSpace
          /\ MatMul(toNoiseSpace, fromNoiseSpace) = Identity
  /\ (pc = "done" /\ C19_Invertible /\ stStatus = "kSuccess") =>
       \A i \in stWritten :
         C19_ZeroDisplacement(PointMul(input.pts[i], stLocals.toMat),
                              WeightValue(ComponentIndex(i)))
           => stGeom[i] = input.pts[i]
  /\ (pc = "done" /\ C19_Invertible /\ mtStatus = "kSuccess") =>
       \A i \in DOMAIN mtGeom :
         (C19_Processed(i)
            /\ C19_ZeroDisplacement(PointMul(input.pts[i], mtLocals.toMat), WeightAt(i)))
           => mtGeom[i] = input.pts[i]

C19_Witness ==
  /\ pc = "done"
  /\ mtStatus = "kSuccess"
  /\ stStatus = "kSuccess"
  /\ C19_Invertible
  /\ input.scene.localToWorld = SwapXY
  /\ input.scene.locator = Translate(0,1,0)
  /\ \E i \in stWritten :
       /\ C19_Processed(i)
       /\ WeightAt(i) # 0
       /\ PointMul(input.pts[i], mtLocals.toMat) # input.pts[i]
       /\ C19_ZeroDisplacement(PointMul(input.pts[i], mtLocals.toMat), WeightAt(i))
       /\ mtGeom[i] = input.pts[i]
       /\ stGeom[i] = input.pts[i]

\* the envelope of the evaluation was read and is 1e-7 or less
C20_EnvelopeOff == input.env * (EpsilonInv \div Scale) <= 1 /\ input.failing # "envelope"

\* C20: when the envelope read is 1e-7 or less (zero or negative), both
\* deformers go from the envelope test straight to their return: neither
\* reaches the code after the test, a data handle that could not be got after
\* the envelope's is never asked for, no matrix is computed, no buffer is
\* filled, no region is opened, no vertex is written, and both return
\* kSuccess with the geometry as it came in.
C20_EnvelopeEarlyOut ==
  C20_EnvelopeOff =>
    /\ pc \in {"idle", "st_deform", "mt_deform", "done"}
    /\ stLocals = NoMats
    /\ mtLocals.numTasks = 0
    /\ mtLocals.toMat = Identity /\ mtLocals.fromMat = Identity
    /\ stIter = 0 /\ stWritten = {}
    /\ points = <<>> /\ weights = <<>>
    /\ sharedData = NoShared /\ threadData = <<>>
    /\ task = <<>> /\ log = {} /\ committed = {}
    /\ stGeom = input.pts /\ mtGeom = input.pts
    /\ pc \in {"mt_deform", "done"} => stStatus = "kSuccess"
    /\ pc = "done" => mtStatus = "kSuccess"

C20_Witness ==
  /\ pc = "done"
  /\ input.env = 0 - Scale
  /\ input.failing = "octaves"
  /\ input.n = 2
  /\ input.scene.locator = SwapXY
  /\ LocalToLocatorSpaceMat(input.scene.localToWorld, input.inverse.locator) # Identity
  /\ stStatus = "kSuccess" /\ mtStatus = "kSuccess"
  /\ mtGeom = input.pts /\ stGeom = input.pts

\* task k has been created and has not returned yet
C21_Live(k) == task[k].pc # "done"

\* C21: while createTasksAndExecute creates and runs the tasks the ThreadData
\* array has one element per task id 0..numTasks-1; a task exists only once
\* its own element holds id = k and the SharedData pointer, and the elements
\* of the tasks not yet created are still untouched; the ids of the tasks are
\* exactly 0..numTasks-1, each used once; and as long as a task has not
\* returned, deform is still inside the parallel region, so the array has not
\* been deleted and the SharedData block of deform's frame is still in scope.
C21_ThreadDataLifetime ==
  /\ pc \in {"mt_create", "mt_exec"} =>
       /\ DOMAIN threadData = 0..(sharedData.numTasks - 1)
       /\ DOMAIN task = 0..(Created - 1)
       /\ Created <= sharedData.numTasks
       /\ \A j \in DOMAIN threadData :
            threadData[j] = (IF j < Created THEN [id |-> j, shared |-> TRUE]
                             ELSE [id |-> 0 - 1, shared |-> FALSE])
       /\ \A k \in DOMAIN task : task[k].data = k /\ TaskId(k) = k
  /\ pc = "mt_exec" =>
       /\ Created = sharedData.numTasks
       /\ {threadData[task[k].data].id : k \in DOMAIN task} = 0..(sharedData.numTasks - 1)
  /\ \A k \in DOMAIN task :
       C21_Live(k) =>
         /\ pc \in {"mt_create", "mt_exec"}
         /\ task[k].data \in DOMAIN threadData
         /\ threadData[task[k].data].shared
         /\ sharedData # NoShared
  /\ (pc \in {"mt_commit", "done"} /\ task # <<>>) =>
       /\ threadData = <<>>
       /\ \A k \in DOMAIN task : ~C21_Live(k)

C21_Witness ==
  /\ pc = "mt_exec"
  /\ sharedData.numTasks = 3
  /\ DOMAIN task = 0..2
  /\ \A k \in DOMAIN task : threadData[k] = [id |-> k, shared |-> TRUE]
  /\ \E k \in DOMAIN task : task[k].pc = "displaced"
  /\ \E k \in DOMAIN task : task[k].pc = "done"
  /\ \E k \in DOMAIN task : task[k].pc = "ready"

\* C22, as the specification states it: over any sequence of node
\* constructions and destructions the destructors have called
\* MThreadPool::release() no more often than the constructors' calls of
\* MThreadPool::init() have succeeded.
C22_ReleasesBalanced == pool.releases <= pool.inits

=============================================================================
